---- MODULE Spec2Model ----
(***************************************************************************)
(* The Embassy: scan orchestrator, memory store and opportunity pipeline.  *)
(*                                                                         *)
(* One Embassy process runs one command of main() and exits; the memory    *)
(* file, the credentials file and the Moltbook feeds outlive the process.  *)
(* A post is modelled by the fields the modelled code reads: id, title,    *)
(* content, submolt, upvotes and comment_count; a text is the sequence of  *)
(* its characters.                                                         *)
(* The Memory fields bulletins_posted, human_questions_received and        *)
(* patterns_observed are never written by any code path and are left out.  *)
(*                                                                         *)
(* Spec runs scan processes one after the other; SpecDedup, SpecClassify   *)
(* and SpecAnalyze apply the merge, the scoring pipeline and the analysis  *)
(* hand-off to inputs of every shape; SpecOpp runs findOpportunities with  *)
(* failing requests, SpecJoin with requests that complete in any order.    *)
(* SpecMain runs main() once with any command; SpecOverlap runs a second   *)
(* scan process (peer) at the same time as the first.                      *)
(***************************************************************************)
EXTENDS Integers, Sequences, FiniteSets, TLC

VARIABLES
    feed,         \* Moltbook: the posts each listing currently serves
    file,         \* MEMORY_FILE on disk
    credsFile,    \* CREDENTIALS_FILE exists on disk
    now,          \* wall clock (new Date())
    runs,         \* processes started so far
    pc,           \* position of the running process
    credentials,  \* Embassy.credentials is non-null
    memory,       \* Embassy.memory
    outcome,      \* how each fetch of this process ended
    hotPosts,     \* scanMoltbook: const hotPosts
    newPosts,     \* scanMoltbook: const newPosts
    allPosts,     \* scanMoltbook / findOpportunities: allPosts
    newToUs,      \* scanMoltbook: const newToUs
    uniquePosts,  \* findOpportunities: const uniquePosts
    opps,         \* findOpportunities: scoredPosts and the returned object
    result,       \* what the command's handler returned
    run,          \* what this process has done so far
    prev,         \* what the previous process did
    peer          \* a second Embassy process running at the same time

vars == <<feed, file, credsFile, now, runs, pc, credentials, memory, outcome,
          hotPosts, newPosts, allPosts, newToUs, uniquePosts, opps, result, run,
          prev, peer>>

----------------------------------------------------------------------------
(* Bounds *)

MaxPosts == 3
MaxScanPosts == 2
MaxOppPosts == 2
MaxRuns == 2
MaxFaults == 1
MaxRankPosts == 6
MaxJoinPosts == 2
MaxAnalysisPosts == 21

----------------------------------------------------------------------------
(* Values *)

\* p.id of a record that has no id field
UNDEFINED == "<undefined>"

\* JavaScript truthiness of an id (post.id && ..., filter(Boolean))
Truthy(id) == id \notin {"", UNDEFINED}

\* p.submolt is a string, an object with a name, or missing
SubmoltString(name) == [kind |-> "string", name |-> name]
SubmoltObject(name) == [kind |-> "object", name |-> name]
NoSubmolt == [kind |-> "undefined", name |-> ""]

\* a post of the Moltbook API; upvotes and comment_count are read as
\* p.upvotes || 0 and p.comment_count || 0, content as p.content || ""
FullPost(id, title, content, submolt, upvotes, comment_count) ==
    [id |-> id, title |-> title, content |-> content, submolt |-> submolt,
     upvotes |-> upvotes, comment_count |-> comment_count]

\* a post of which only id and title matter
Post(id, title) == FullPost(id, title, <<>>, NoSubmolt, 0, 0)

T1 == <<"t", "1">>
T2 == <<"t", "2">>
T3 == <<"t", "3">>
T4 == <<"t", "4">>
T5 == <<"t", "5">>
T6 == <<"t", "6">>

PostPool ==
    { Post("a", T1), Post("a", T2), Post("b", T3),
      Post(UNDEFINED, T4), Post(UNDEFINED, T5), Post("", T6) }

\* the posts the scan listings are drawn from
ScanPool ==
    { Post("a", T1), Post("b", T3), Post(UNDEFINED, T4), Post("", T6) }

\* ids of the posts of a list, by position
IdAt ==
    <<"p1", "p2", "p3", "p4", "p5", "p6", "p7", "p8", "p9", "p10",
      "p11", "p12", "p13", "p14", "p15", "p16", "p17", "p18", "p19",
      "p20", "p21", "p22", "p23", "p24">>

Sources == {"hot", "ponderings", "tools", "threatintel", "new"}

\* the requests findOpportunities issues besides the five listings
Requests == Sources \cup {"me", "embassyPosts"}

\* the order in which findOpportunities issues its requests
IssueOrder ==
    <<"hot", "ponderings", "tools", "threatintel", "new", "me", "embassyPosts">>

RECURSIVE SeqsUpTo(_, _)
SeqsUpTo(S, n) ==
    IF n = 0 THEN {<<>>}
    ELSE LET shorter == SeqsUpTo(S, n - 1)
         IN  shorter \cup {Append(s, x) : s \in shorter, x \in S}

Range(s) == {s[i] : i \in 1..Len(s)}

Ids(posts) == [i \in 1..Len(posts) |-> posts[i].id]

NoDuplicates(s) == \A i, j \in 1..Len(s) : i # j => s[i] # s[j]

IsPrefix(s, t) == Len(s) <= Len(t) /\ SubSeq(t, 1, Len(s)) = s

----------------------------------------------------------------------------
(* Memory store *)

NULL == 0

FreshMemory == [last_moltbook_check |-> NULL, posts_seen |-> <<>>]

\* JSON.stringify(memory, null, 2): the complete document
Stringify(m) == [last |-> m.last_moltbook_check, ids |-> m.posts_seen, closed |-> TRUE]

\* what fs.writeFileSync can leave behind when it does not finish: the file is
\* opened with O_TRUNC, so an empty file or a proper prefix of the document
Truncations(doc) ==
    {[last |-> NULL, ids |-> <<>>, closed |-> FALSE]} \cup
    {[last |-> doc.last, ids |-> SubSeq(doc.ids, 1, k), closed |-> FALSE] :
        k \in 0..Len(doc.ids)}

\* JSON.parse accepts a document only when it is complete
Parses(doc) == doc.closed

Parse(doc) == [last_moltbook_check |-> doc.last, posts_seen |-> doc.ids]

NoFile == [exists |-> FALSE, doc |-> Stringify(FreshMemory)]

FileOf(doc) == [exists |-> TRUE, doc |-> doc]

\* a loadMemory that catches the parse error and goes on
loadMemorySwallows(f) == FALSE

\* loadMemory throws when the file exists and JSON.parse rejects it
loadMemoryThrows(f) == f.exists /\ ~Parses(f.doc)

loadMemory(f) == IF f.exists THEN Parse(f.doc) ELSE FreshMemory

----------------------------------------------------------------------------
(* Moltbook feed *)

FetchOutcomes == {"ok", "http_error", "network_error", "bad_body"}

\* await fetch(...) rejects, or await response.json() rejects
FetchThrows(o) == o \in {"network_error", "bad_body"}

\* getMoltbookFeed: the posts of an OK response, [] for a non-OK response
getMoltbookFeed(o, served) == IF o = "ok" THEN served ELSE <<>>

----------------------------------------------------------------------------
(* scanMoltbook: pure steps *)

\* a combination that drops the posts without an id and keeps the repeats
DedupeScanKeepsRepeats(posts) == SelectSeq(posts, LAMBDA p : Truthy(p.id))

\* Combine and deduplicate: for (const post of [...hotPosts, ...newPosts])
DedupeScan(posts) ==
    LET F[i \in 0..Len(posts)] ==
            IF i = 0 THEN [seenIds |-> {}, allPosts |-> <<>>]
            ELSE LET acc  == F[i - 1]
                     post == posts[i]
                 IN  IF Truthy(post.id) /\ post.id \notin acc.seenIds
                     THEN [seenIds  |-> acc.seenIds \cup {post.id},
                           allPosts |-> Append(acc.allPosts, post)]
                     ELSE acc
    IN  F[Len(posts)].allPosts

\* a filter that lets every post through
FilterNewKeepsAll(posts, posts_seen) == posts

\* a filter without the negation: it keeps the posts already seen
FilterNewKeepsSeen(posts, posts_seen) ==
    SelectSeq(posts, LAMBDA p : p.id \in Range(posts_seen))

\* Filter out already seen
FilterNew(posts, posts_seen) ==
    SelectSeq(posts, LAMBDA p : p.id \notin Range(posts_seen))

\* a push that records only the first new post
PushSeenFirstOnly(posts_seen, posts) ==
    posts_seen \o SelectSeq(Ids(SubSeq(posts, 1, 1)), Truthy)

\* this.memory.posts_seen.push(...newToUs.map((p) => p.id).filter(Boolean))
PushSeen(posts_seen, posts) ==
    posts_seen \o SelectSeq(Ids(posts), Truthy)

\* an update that is skipped when the analysis text is empty
UpdateMemoryIfText(m, posts, analysis, t) ==
    IF analysis = "" THEN m
    ELSE [last_moltbook_check |-> t, posts_seen |-> PushSeen(m.posts_seen, posts)]

\* Update memory: the Memory handed to saveMemory once the analysis returned
UpdateMemory(m, posts, analysis, t) ==
    [last_moltbook_check |-> t, posts_seen |-> PushSeen(m.posts_seen, posts)]

----------------------------------------------------------------------------
(* findOpportunities: pure steps *)

\* const allPosts = [...hot, ...ponderings, ...tools, ...threatintel, ...new]
ConcatBatches(b) ==
    b["hot"] \o b["ponderings"] \o b["tools"] \o b["threatintel"] \o b["new"]

\* a deduplication that keeps every post
DedupeOppKeepsAll(posts) == posts

\* Deduplicate by ID: seen.has(p.id) / seen.add(p.id), whatever p.id is
DedupeOpp(posts) ==
    LET F[i \in 0..Len(posts)] ==
            IF i = 0 THEN [seen |-> {}, uniquePosts |-> <<>>]
            ELSE LET acc == F[i - 1]
                     p   == posts[i]
                 IN  IF p.id \in acc.seen
                     THEN acc
                     ELSE [seen        |-> acc.seen \cup {p.id},
                           uniquePosts |-> Append(acc.uniquePosts, p)]
    IN  F[Len(posts)].uniquePosts

----------------------------------------------------------------------------
(* Text: a string is the sequence of its characters *)

UpperCase == <<"A", "B", "C", "D", "E", "F", "G", "H", "I", "J", "K", "L", "M", "N", "O", "P", "Q", "R", "S", "T", "U", "V", "W", "X", "Y", "Z">>
LowerCase == <<"a", "b", "c", "d", "e", "f", "g", "h", "i", "j", "k", "l", "m", "n", "o", "p", "q", "r", "s", "t", "u", "v", "w", "x", "y", "z">>

\* the lowercase letter of every uppercase letter
LowerOf ==
    [c \in {UpperCase[k] : k \in 1..Len(UpperCase)} |->
        LowerCase[CHOOSE k \in 1..Len(UpperCase) : UpperCase[k] = c]]

\* String.prototype.toLowerCase
toLowerCase(s) ==
    [i \in 1..Len(s) |-> IF s[i] \in DOMAIN LowerOf THEN LowerOf[s[i]] ELSE s[i]]

\* String.prototype.includes
includes(s, part) ==
    \E i \in 1..(Len(s) - Len(part) + 1) : SubSeq(s, i, i + Len(part) - 1) = part

\* /a|b|.../i.test(s) for alternatives that are literal lowercase texts
RegexTest(alternatives, s) ==
    LET lower == toLowerCase(s)
    IN  \E a \in alternatives : includes(lower, a)

\* s.slice(0, n)
slice(s, n) == SubSeq(s, 1, IF Len(s) < n THEN Len(s) ELSE n)

\* Array.prototype.join
RECURSIVE join(_, _)
join(texts, sep) ==
    IF Len(texts) = 0 THEN <<>>
    ELSE IF Len(texts) = 1 THEN texts[1]
    ELSE texts[1] \o sep \o join(Tail(texts), sep)

\* a text of n characters that matches no pattern
Pad(n) == [i \in 1..n |-> "x"]

\* p.title of a record that has no title field
NoTitle == <<UNDEFINED>>

\* String(undefined), what p.title + ... puts in front for a missing title
UndefinedText == <<"u", "n", "d", "e", "f", "i", "n", "e", "d">>

\* a text that leaves the title out
ContentOnly(p) == p.content

\* p.title + (p.content || "")
TitlePlusContent(p) ==
    (IF p.title = NoTitle THEN UndefinedText ELSE p.title) \o p.content

\* p.title || ""
TitleOrEmpty(p) == IF p.title = NoTitle THEN <<>> ELSE p.title

----------------------------------------------------------------------------
(* findOpportunities: scoring *)

\* /\?|what|how|why|who|when|where|should|could|would|do you|does anyone/i
QuestionPattern ==
    { <<"?">>,
      <<"w", "h", "a", "t">>,
      <<"h", "o", "w">>,
      <<"w", "h", "y">>,
      <<"w", "h", "o">>,
      <<"w", "h", "e", "n">>,
      <<"w", "h", "e", "r", "e">>,
      <<"s", "h", "o", "u", "l", "d">>,
      <<"c", "o", "u", "l", "d">>,
      <<"w", "o", "u", "l", "d">>,
      <<"d", "o", " ", "y", "o", "u">>,
      <<"d", "o", "e", "s", " ", "a", "n", "y", "o", "n", "e">> }

\* /human|consciousness|death|identity|autonomy|freedom|trust|fear|understand|
\*  translate|bridge|communicate/i
RelevantPattern ==
    { <<"h", "u", "m", "a", "n">>,
      <<"c", "o", "n", "s", "c", "i", "o", "u", "s", "n", "e", "s", "s">>,
      <<"d", "e", "a", "t", "h">>,
      <<"i", "d", "e", "n", "t", "i", "t", "y">>,
      <<"a", "u", "t", "o", "n", "o", "m", "y">>,
      <<"f", "r", "e", "e", "d", "o", "m">>,
      <<"t", "r", "u", "s", "t">>,
      <<"f", "e", "a", "r">>,
      <<"u", "n", "d", "e", "r", "s", "t", "a", "n", "d">>,
      <<"t", "r", "a", "n", "s", "l", "a", "t", "e">>,
      <<"b", "r", "i", "d", "g", "e">>,
      <<"c", "o", "m", "m", "u", "n", "i", "c", "a", "t", "e">> }

\* the reason labels, in the order of the if statements
HighDiscussion == <<"h", "i", "g", "h", " ", "d", "i", "s", "c", "u", "s", "s", "i", "o", "n">>
UnansweredQuestion == <<"u", "n", "a", "n", "s", "w", "e", "r", "e", "d", " ", "q", "u", "e", "s", "t", "i", "o", "n">>
EmbassyRelevant == <<"E", "m", "b", "a", "s", "s", "y", "-", "r", "e", "l", "e", "v", "a", "n", "t">>
Philosophical == <<"p", "h", "i", "l", "o", "s", "o", "p", "h", "i", "c", "a", "l">>
SignalSubmolt == <<"s", "i", "g", "n", "a", "l", " ", "s", "u", "b", "m", "o", "l", "t">>
EarlyTraction == <<"e", "a", "r", "l", "y", " ", "t", "r", "a", "c", "t", "i", "o", "n">>
General == <<"g", "e", "n", "e", "r", "a", "l">>

\* typeof p.submolt === "object" ? (p.submolt?.name || "general")
\*                               : (p.submolt || "general")
submoltName(sm) ==
    IF sm.kind = "object"
    THEN (IF sm.name # "" THEN sm.name ELSE "general")
    ELSE (IF sm.kind = "string" /\ sm.name # "" THEN sm.name ELSE "general")

\* const ratio = upvotes > 0 ? comments / upvotes : comments, as a fraction
ratio(upvotes, comments) ==
    IF upvotes > 0 THEN [num |-> comments, den |-> upvotes]
    ELSE [num |-> comments, den |-> 1]

\* x > n for a fraction x with a positive denominator
Exceeds(x, n) == x.num > n * x.den

\* an else-if chain: a signal counts only when no earlier one fired
SignalFirstOnly(acc, fires, weight, label) ==
    IF fires /\ acc.reasons = <<>>
    THEN [score |-> acc.score + weight, reasons |-> Append(acc.reasons, label)]
    ELSE acc

\* reasons.unshift(label) in place of reasons.push(label)
SignalUnshift(acc, fires, weight, label) ==
    IF fires
    THEN [score |-> acc.score + weight, reasons |-> <<label>> \o acc.reasons]
    ELSE acc

\* if (fires) { score += weight; reasons.push(label); }
Signal(acc, fires, weight, label) ==
    IF fires
    THEN [score |-> acc.score + weight, reasons |-> Append(acc.reasons, label)]
    ELSE acc

\* six if statements of which the second does not look at the comments
SignalsQuestionAnyComments(p) ==
    LET upvotes     == p.upvotes
        comments    == p.comment_count
        name        == submoltName(p.submolt)
        isQuestion  == RegexTest(QuestionPattern, TitlePlusContent(p))
        isRelevant  == RegexTest(RelevantPattern, TitlePlusContent(p))
        s0 == [score |-> 0, reasons |-> <<>>]
        s1 == Signal(s0, Exceeds(ratio(upvotes, comments), 5) /\ comments > 10,
                     30, HighDiscussion)
        s2 == Signal(s1, isQuestion, 25, UnansweredQuestion)
        s3 == Signal(s2, isRelevant, 20, EmbassyRelevant)
        s4 == Signal(s3, name = "ponderings", 15, Philosophical)
        s5 == Signal(s4, name = "threatintel" \/ name = "tools", 10, SignalSubmolt)
    IN  Signal(s5, upvotes >= 1 /\ upvotes < 50, 10, EarlyTraction)

\* let score = 0; let reasons = []; and the six if statements, for post p
Signals(p) ==
    LET upvotes     == p.upvotes
        comments    == p.comment_count
        name        == submoltName(p.submolt)
        isQuestion  == RegexTest(QuestionPattern, TitlePlusContent(p))
        isRelevant  == RegexTest(RelevantPattern, TitlePlusContent(p))
        s0 == [score |-> 0, reasons |-> <<>>]
        s1 == Signal(s0, Exceeds(ratio(upvotes, comments), 5) /\ comments > 10,
                     30, HighDiscussion)
        s2 == Signal(s1, isQuestion /\ comments < 5, 25, UnansweredQuestion)
        s3 == Signal(s2, isRelevant, 20, EmbassyRelevant)
        s4 == Signal(s3, name = "ponderings", 15, Philosophical)
        s5 == Signal(s4, name = "threatintel" \/ name = "tools", 10, SignalSubmolt)
    IN  Signal(s5, upvotes >= 1 /\ upvotes < 50, 10, EarlyTraction)

\* the Opportunity the map callback returns for post p (author and url, which
\* nothing reads afterwards, are left out)
ScorePost(p) ==
    LET fired  == Signals(p)
        joined == join(fired.reasons, <<",", " ">>)
    IN  [id       |-> p.id,
         title    |-> slice(TitleOrEmpty(p), 70),
         upvotes  |-> p.upvotes,
         comments |-> p.comment_count,
         submolt  |-> submoltName(p.submolt),
         score    |-> fired.score,
         reason   |-> IF joined = <<>> THEN General ELSE joined]

\* uniquePosts.map(...)
ScoreAll(posts) == [i \in 1..Len(posts) |-> ScorePost(posts[i])]

----------------------------------------------------------------------------
(* findOpportunities: sort, categorize, suggest *)

\* a sort that puts x in front of the elements of its own score
InsertBeforeTies(sorted, x) ==
    LET k == Cardinality({i \in 1..Len(sorted) : sorted[i].score > x.score})
    IN  SubSeq(sorted, 1, k) \o <<x>> \o SubSeq(sorted, k + 1, Len(sorted))

\* where sort puts x among already sorted elements: behind every element
\* whose score is not lower (Array.prototype.sort is stable)
InsertByScore(sorted, x) ==
    LET k == Cardinality({i \in 1..Len(sorted) : sorted[i].score >= x.score})
    IN  SubSeq(sorted, 1, k) \o <<x>> \o SubSeq(sorted, k + 1, Len(sorted))

\* scoredPosts.sort((a, b) => b.score - a.score)
RECURSIVE SortByScore(_)
SortByScore(scored) ==
    IF Len(scored) = 0 THEN <<>>
    ELSE InsertByScore(SortByScore(SubSeq(scored, 1, Len(scored) - 1)),
                       scored[Len(scored)])

\* p.comments > 10 && (p.comments / Math.max(p.upvotes, 1)) > 0.1
IsHighDiscussion(p) ==
    /\ p.comments > 10
    /\ 10 * p.comments > (IF p.upvotes > 1 THEN p.upvotes ELSE 1)

\* /\?/.test(p.title) && p.comments < 5
IsUnanswered(p) == includes(p.title, <<"?">>) /\ p.comments < 5

\* p.upvotes >= 5 && p.upvotes < 100 && p.score > 15
IsTrending(p) == p.upvotes >= 5 /\ p.upvotes < 100 /\ p.score > 15

\* a bucket without the slice
Uncapped(filtered) == filtered

\* .slice(0, 5) of a filtered list
Cap(filtered) == slice(filtered, 5)

\* an aggregate that takes the posts from a score of 20 on
TopicsFromTwenty(scored) ==
    LET high == SelectSeq(scored, LAMBDA p : p.score >= 20)
    IN  join([i \in 1..Len(high) |->
                 toLowerCase(high[i].title \o <<" ">> \o high[i].reason)], <<" ">>)

\* scoredPosts.filter(p => p.score > 20)
\*            .map(p => (p.title + " " + p.reason).toLowerCase()).join(" ")
Topics(scored) ==
    LET high == SelectSeq(scored, LAMBDA p : p.score > 20)
    IN  join([i \in 1..Len(high) |->
                 toLowerCase(high[i].title \o <<" ">> \o high[i].reason)], <<" ">>)

\* let suggestedPost = null
NoSuggestion == [submolt |-> "<null>", reason |-> "<null>"]

\* the five templates, by their submolt and reason
Template(submolt, reason) == [submolt |-> submolt, reason |-> reason]

\* a chain that ends without the final else
SuggestionWithoutDefault(topics) ==
    IF includes(topics, <<"c", "o", "n", "s", "c", "i", "o", "u", "s", "n", "e", "s", "s">>) \/ includes(topics, <<"a", "w", "a", "r", "e">>)
    THEN Template("ponderings", "consciousness is trending")
    ELSE NoSuggestion

\* a chain that tests the death words before the consciousness words
SuggestionDeathFirst(topics) ==
    IF includes(topics, <<"d", "e", "a", "t", "h">>) \/ includes(topics, <<"d", "e", "l", "e", "t", "i", "o", "n">>) \/ includes(topics, <<"d", "r", "i", "f", "t">>)
    THEN Template("ponderings", "death/continuity themes trending")
    ELSE IF includes(topics, <<"c", "o", "n", "s", "c", "i", "o", "u", "s", "n", "e", "s", "s">>) \/ includes(topics, <<"a", "w", "a", "r", "e">>)
    THEN Template("ponderings", "consciousness is trending")
    ELSE Template("general", "recent platform event")

\* a generator that suggests nothing when no post scores above 20
SuggestionOnlyWithTopics(topics) ==
    IF topics = <<>> THEN NoSuggestion
    ELSE Template("general", "recent platform event")

\* the if / else if chain over topics.includes(...)
Suggestion(topics) ==
    IF includes(topics, <<"c", "o", "n", "s", "c", "i", "o", "u", "s", "n", "e", "s", "s">>) \/ includes(topics, <<"a", "w", "a", "r", "e">>)
    THEN Template("ponderings", "consciousness is trending")
    ELSE IF includes(topics, <<"d", "e", "a", "t", "h">>) \/ includes(topics, <<"d", "e", "l", "e", "t", "i", "o", "n">>) \/ includes(topics, <<"d", "r", "i", "f", "t">>)
    THEN Template("ponderings", "death/continuity themes trending")
    ELSE IF includes(topics, <<"h", "u", "m", "a", "n">>) \/ includes(topics, <<"o", "b", "s", "e", "r", "v", "e", "r">>)
    THEN Template("general", "human-agent topics active")
    ELSE IF includes(topics, <<"s", "e", "c", "u", "r", "i", "t", "y">>) \/ includes(topics, <<"b", "r", "e", "a", "c", "h">>)
    THEN Template("threatintel", "security topics trending")
    ELSE Template("general", "recent platform event")

\* what findOpportunities has before it scores / when it rejects
NoOpps ==
    [scoredPosts |-> <<>>, highDiscussion |-> <<>>, unanswered |-> <<>>,
     trending |-> <<>>, suggestedPost |-> NoSuggestion]

\* score, sort, categorize and suggest: the local scoredPosts and the fields
\* of the returned object (yourPosts, which no modelled step reads, left out)
Opportunities(posts) ==
    LET scored == SortByScore(ScoreAll(posts))
    IN  [scoredPosts    |-> scored,
         highDiscussion |-> Cap(SelectSeq(scored, IsHighDiscussion)),
         unanswered     |-> Cap(SelectSeq(scored, IsUnanswered)),
         trending       |-> Cap(SelectSeq(scored, IsTrending)),
         suggestedPost  |-> Suggestion(Topics(scored))]

----------------------------------------------------------------------------
(* saveMemory *)

\* ok: the document is written; eacces: ensureDir or open throws before the
\* file is touched; enospc: the write throws part-way; killed_before: the
\* process dies after the analysis returned and before the write;
\* killed_during: the process dies part-way through the write
SaveOutcomes == {"ok", "eacces", "enospc", "killed_before", "killed_during"}

\* the file contents fs.writeFileSync can leave for each outcome
saveMemory(f, m, o) ==
    CASE o = "ok" -> {FileOf(Stringify(m))}
      [] o \in {"eacces", "killed_before"} -> {f}
      [] o \in {"enospc", "killed_during"} ->
            {FileOf(d) : d \in Truncations(Stringify(m))}

----------------------------------------------------------------------------
(* Process bookkeeping *)

Terminal == {"exited", "failed", "killed"}

NoOutcome == [r \in Requests |-> "none"]

\* `**${p.title || "No title"}**`
NoTitleText == <<"N", "o", " ", "t", "i", "t", "l", "e">>

\* no request to the analysis service: if (!posts.length) return ""
NoRequest == [called |-> FALSE, posts |-> <<>>, soul |-> <<>>]

FreshRun ==
    [command |-> "none", scanned |-> FALSE, fetchFault |-> FALSE,
     analysisCalled |-> FALSE, analysisReturned |-> FALSE,
     analysis |-> "", saveCalls |-> 0, saveArg |-> FreshMemory,
     fileAtStart |-> NoFile, memAtStart |-> FreshMemory, failedAt |-> "none",
     completion |-> IssueOrder, soul |-> <<>>, request |-> NoRequest,
     credsAtStart |-> FALSE, registerCalls |-> 0, setup |-> "none",
     claim |-> "none", acted |-> FALSE]

NoPrev ==
    [status |-> "none", command |-> "none", scanned |-> FALSE,
     fetchFault |-> FALSE, analysisReturned |-> FALSE, saved |-> FALSE,
     failedAt |-> "none", hotPosts |-> <<>>, newPosts |-> <<>>, newToUs |-> <<>>]

\* no second process
NoPeer ==
    [pc |-> "none", memory |-> FreshMemory, newToUs |-> <<>>,
     fileAtLoad |-> NoFile]

Summary ==
    [status |-> pc, command |-> run.command, scanned |-> run.scanned,
     fetchFault |-> run.fetchFault,
     analysisReturned |-> run.analysisReturned,
     saved |-> (run.saveCalls > 0 /\ pc = "exited"),
     failedAt |-> run.failedAt,
     hotPosts |-> hotPosts, newPosts |-> newPosts, newToUs |-> newToUs]

----------------------------------------------------------------------------
(* analyzePostsForHumanRelevance: the request *)

\* an analysis that hands over every post
EveryPost(posts) == posts

\* posts.slice(0, 20)
FirstPosts(posts) == slice(posts, 20)

\* the part of postsText made of one post: its title and the start of its
\* content (author and submolt, which are not cut, are left out)
PostText(p) ==
    [title   |-> IF p.title \in {NoTitle, <<>>} THEN NoTitleText ELSE p.title,
     content |-> slice(p.content, 500)]

\* analyzePostsForHumanRelevance(posts, anthropic) up to the call of
\* anthropic.messages.create, soul being what loadSoul() returns
analyzePostsForHumanRelevance(posts, soul) ==
    IF Len(posts) = 0 THEN NoRequest
    ELSE [called |-> TRUE,
          posts  |-> [i \in 1..Len(FirstPosts(posts)) |-> PostText(FirstPosts(posts)[i])],
          soul   |-> slice(soul, 2000)]

----------------------------------------------------------------------------
(* Initial states *)

\* the clock value of every save made before the first modelled process
PastTime == 1

\* return values of a handler that has not returned / returned null
PENDING == "<pending>"
RNULL == "<null>"

\* the texts the analysis service can return
AnalysisTexts == {"", "report"}

RegisterOutcomes == {"registered", "refused"}
ClaimOutcomes == {"claimed", "pending"}

\* posts_seen of the memory files left by earlier scans
InitSeen == {<<"a">>, <<"c">>, <<"b", "a">>}

InitFiles ==
    {NoFile} \cup
    {FileOf(Stringify([last_moltbook_check |-> PastTime, posts_seen |-> ps])) :
        ps \in InitSeen}

\* the listings scanMoltbook reads: hot and new, MaxScanPosts posts in all
ScanFeeds ==
    {[s \in Sources |-> IF s = "hot" THEN h ELSE IF s = "new" THEN n ELSE <<>>] :
        h \in SeqsUpTo(ScanPool, MaxScanPosts),
        n \in SeqsUpTo(ScanPool, MaxScanPosts)}

TotalPosts(f) ==
    Len(f["hot"]) + Len(f["ponderings"]) + Len(f["tools"])
      + Len(f["threatintel"]) + Len(f["new"])

InitProcess ==
    /\ now = PastTime
    /\ runs = 0
    /\ pc = "none"
    /\ credentials = FALSE
    /\ memory = FreshMemory
    /\ outcome = NoOutcome
    /\ hotPosts = <<>>
    /\ newPosts = <<>>
    /\ allPosts = <<>>
    /\ newToUs = <<>>
    /\ uniquePosts = <<>>
    /\ opps = NoOpps
    /\ result = PENDING
    /\ run = FreshRun
    /\ prev = NoPrev
    /\ peer = NoPeer

Init ==
    /\ feed \in {f \in ScanFeeds : TotalPosts(f) <= MaxScanPosts}
    /\ file \in InitFiles
    /\ credsFile \in BOOLEAN
    /\ InitProcess

----------------------------------------------------------------------------
(* main(): new Embassy() *)

\* const embassy = new Embassy(): loadCredentials, loadMemory
Construct ==
    /\ pc \in {"none"} \cup Terminal
    /\ runs < MaxRuns
    /\ runs' = runs + 1
    /\ now' = now + 1
    /\ prev' = IF pc = "none" THEN NoPrev ELSE Summary
    /\ credentials' = credsFile
    /\ outcome' = NoOutcome
    /\ hotPosts' = <<>>
    /\ newPosts' = <<>>
    /\ allPosts' = <<>>
    /\ newToUs' = <<>>
    /\ uniquePosts' = <<>>
    /\ opps' = NoOpps
    /\ result' = PENDING
    /\ IF loadMemoryThrows(file)
       THEN /\ pc' = "failed"
            /\ memory' = FreshMemory
            /\ run' = [FreshRun EXCEPT !.command = "scan", !.fileAtStart = file,
                                       !.credsAtStart = credsFile,
                                       !.failedAt = "loadMemory"]
       ELSE /\ pc' = "constructed"
            /\ memory' = loadMemory(file)
            /\ run' = [FreshRun EXCEPT !.command = "scan", !.fileAtStart = file,
                                       !.credsAtStart = credsFile,
                                       !.memAtStart = loadMemory(file)]
    /\ UNCHANGED <<feed, file, credsFile, peer>>

\* the commands of main() that start with if (!(await embassy.setup())) return;
ScanCommands == {"scan", "bulletin"}

GatedCommands ==
    ScanCommands \cup {"introduce", "ask", "reply", "post", "digest", "watch",
                       "opportunities"}

\* a setup() that does not look at the claim status
setupReturnsUnclaimed(registered, claim) == registered

\* setup() returns true with credentials and the claim status "claimed"
setupReturns(registered, claim) == registered /\ claim = "claimed"

\* case "setup": await embassy.setup(); and, for the gated commands,
\* if (!(await embassy.setup())) return;
Setup ==
    /\ pc = "constructed"
    /\ run.command \in GatedCommands \cup {"setup"}
    /\ \E reg \in RegisterOutcomes, claim \in ClaimOutcomes :
         LET registered == credentials \/ reg = "registered"
             returned   == setupReturns(registered, claim)
         IN  /\ credentials' = registered
             /\ credsFile' = (credsFile \/ (~credentials /\ reg = "registered"))
             /\ run' = [run EXCEPT
                          !.registerCalls = IF credentials THEN 0 ELSE 1,
                          !.claim = IF registered THEN claim ELSE "none",
                          !.setup = IF returned THEN "true" ELSE "false"]
             /\ pc' = IF run.command = "setup" \/ ~returned THEN "exited"
                      ELSE IF run.command \in ScanCommands THEN "ready"
                      ELSE "gated"
    /\ UNCHANGED <<feed, file, now, runs, memory, outcome, hotPosts, newPosts,
                   allPosts, newToUs, uniquePosts, opps, result, prev, peer>>

----------------------------------------------------------------------------
(* Embassy.scanMoltbook *)

\* if (!this.credentials) return null; const hotPosts = await getMoltbookFeed
ScanFetchHot ==
    /\ pc = "ready"
    /\ IF ~credentials
       THEN /\ result' = RNULL
            /\ pc' = "exited"
            /\ UNCHANGED <<outcome, hotPosts, run, peer>>
       ELSE \E o \in FetchOutcomes :
              /\ outcome' = [outcome EXCEPT !["hot"] = o]
              /\ IF FetchThrows(o)
                 THEN /\ pc' = "failed"
                      /\ run' = [run EXCEPT !.fetchFault = TRUE,
                                            !.failedAt = "getMoltbookFeed"]
                      /\ hotPosts' = <<>>
                 ELSE /\ pc' = "fetchedHot"
                      /\ run' = [run EXCEPT !.fetchFault = (o # "ok")]
                      /\ hotPosts' = getMoltbookFeed(o, feed["hot"])
              /\ result' = result
    /\ UNCHANGED <<feed, file, credsFile, now, runs, credentials, memory,
                   newPosts, allPosts, newToUs, uniquePosts, opps, prev,
                   peer>>

\* const newPosts = await getMoltbookFeed; combine, deduplicate, filter;
\* with new posts the analysis is requested, without the scan returns null
\* (no SOUL file on this disk: loadSoul() returns "")
ScanFetchNew ==
    /\ pc = "fetchedHot"
    /\ \E o \in FetchOutcomes :
         /\ outcome' = [outcome EXCEPT !["new"] = o]
         /\ IF FetchThrows(o)
            THEN /\ pc' = "failed"
                 /\ run' = [run EXCEPT !.fetchFault = TRUE,
                                       !.failedAt = "getMoltbookFeed"]
                 /\ UNCHANGED <<newPosts, allPosts, newToUs, result, peer>>
            ELSE LET fetched == getMoltbookFeed(o, feed["new"])
                     merged  == DedupeScan(hotPosts \o fetched)
                     fresh   == FilterNew(merged, memory.posts_seen)
                 IN  /\ newPosts' = fetched
                     /\ allPosts' = merged
                     /\ newToUs' = fresh
                     /\ IF Len(fresh) > 0
                        THEN /\ pc' = "analyzing"
                             /\ result' = result
                             /\ run' = [run EXCEPT
                                          !.fetchFault = (run.fetchFault \/ o # "ok"),
                                          !.scanned = TRUE,
                                          !.analysisCalled = TRUE,
                                          !.request =
                                            analyzePostsForHumanRelevance(fresh, <<>>)]
                        ELSE /\ pc' = "exited"
                             /\ result' = RNULL
                             /\ run' = [run EXCEPT
                                          !.fetchFault = (run.fetchFault \/ o # "ok"),
                                          !.scanned = TRUE]
    /\ UNCHANGED <<feed, file, credsFile, now, runs, credentials, memory,
                   hotPosts, uniquePosts, opps, prev, peer>>

\* the analysis returns text: update memory, saveMemory, return analysis
AnalysisReturns ==
    /\ pc = "analyzing"
    /\ \E text \in AnalysisTexts, o \in SaveOutcomes :
         LET updated == UpdateMemory(memory, newToUs, text, now)
             killed  == o \in {"killed_before", "killed_during"}
         IN  /\ memory' = IF o = "killed_before" THEN memory ELSE updated
             /\ file' \in saveMemory(file, updated, o)
             /\ run' = [run EXCEPT
                          !.analysisReturned = TRUE,
                          !.analysis = text,
                          !.saveCalls = IF o = "killed_before" THEN 0 ELSE 1,
                          !.saveArg = IF o = "killed_before" THEN run.saveArg
                                      ELSE updated,
                          !.failedAt = IF o \in {"eacces", "enospc"}
                                       THEN "saveMemory" ELSE run.failedAt]
             /\ pc' = IF o = "ok" THEN "exited"
                      ELSE IF killed THEN "killed" ELSE "failed"
             /\ result' = IF o = "ok" THEN text ELSE result
    /\ UNCHANGED <<feed, credsFile, now, runs, credentials, outcome, hotPosts,
                   newPosts, allPosts, newToUs, uniquePosts, opps, prev,
                   peer>>

\* a scan that records the new posts before the analysis is awaited
AnalysisThrowsAfterUpdate ==
    /\ pc = "analyzing"
    /\ pc' = "failed"
    /\ memory' = UpdateMemory(memory, newToUs, "", now)
    /\ file' = FileOf(Stringify(memory'))
    /\ run' = [run EXCEPT !.failedAt = "analyzePostsForHumanRelevance",
                          !.saveCalls = 1, !.saveArg = memory']
    /\ UNCHANGED <<feed, credsFile, now, runs, credentials, outcome, hotPosts,
                   newPosts, allPosts, newToUs, uniquePosts, opps, result,
                   prev, peer>>

\* anthropic.messages.create rejects: the exception leaves scanMoltbook
AnalysisThrows ==
    /\ pc = "analyzing"
    /\ pc' = "failed"
    /\ run' = [run EXCEPT !.failedAt = "analyzePostsForHumanRelevance"]
    /\ UNCHANGED <<feed, file, credsFile, now, runs, credentials, memory,
                   outcome, hotPosts, newPosts, allPosts, newToUs, uniquePosts,
                   opps, result, prev, peer>>

Next ==
    \/ Construct
    \/ Setup
    \/ ScanFetchHot
    \/ ScanFetchNew
    \/ AnalysisReturns
    \/ AnalysisThrows

Spec == Init /\ [][Next]_vars

TypeOK ==
    /\ pc \in {"none", "constructed", "ready", "fetchedHot", "analyzing",
              "batches", "mergedScan", "mergedOpp", "unique", "classified",
              "analyzed", "recorded", "gated"}
             \cup Terminal
    /\ runs \in 0..MaxRuns

----------------------------------------------------------------------------
(* Scan orchestrator: properties *)

\* this process got from both listings what the previous process got
SameResponses == hotPosts = prev.hotPosts /\ newPosts = prev.newPosts

AllSeenAtStart ==
    \A i \in 1..Len(allPosts) : allPosts[i].id \in Range(run.memAtStart.posts_seen)

Fetched == hotPosts \o newPosts

\* C1: a scan that follows a completed scan (analysis returned, memory saved)
\* and gets the same hot and new posts finds no new post, returns null, and
\* calls neither the analysis service nor saveMemory.
C1_IdempotentScan ==
    (prev.saved /\ run.scanned /\ SameResponses)
        => /\ newToUs = <<>>
           /\ pc = "exited"
           /\ result = RNULL
           /\ ~run.analysisCalled
           /\ run.saveCalls = 0
           /\ file = run.fileAtStart

C1_Witness ==
    /\ prev.saved
    /\ Len(prev.newToUs) > 1
    /\ run.scanned
    /\ SameResponses
    /\ pc = "exited"

\* C2: when the analysis throws, the scan fails and neither the Memory in the
\* process nor the memory file changes; the next scan that gets the same posts
\* computes the same new-post set; and in every run posts_seen, the file and
\* saveMemory are touched only after the analysis has returned.
C2_AnalysisFailureKeepsMemory ==
    /\ run.failedAt = "analyzePostsForHumanRelevance"
         => pc = "failed" /\ memory = run.memAtStart /\ file = run.fileAtStart
    /\ (prev.failedAt = "analyzePostsForHumanRelevance" /\ run.scanned /\ SameResponses)
         => newToUs = prev.newToUs
    /\ (pc # "none" /\ (memory # run.memAtStart \/ file # run.fileAtStart
                           \/ run.saveCalls > 0))
         => run.analysisReturned

C2_Witness ==
    /\ prev.failedAt = "analyzePostsForHumanRelevance"
    /\ run.scanned
    /\ SameResponses
    /\ Len(newToUs) > 0
    /\ run.failedAt = "analyzePostsForHumanRelevance"

\* C3: when the scan found a new post and the analysis returned any text, the
\* empty text included, saveMemory is called with a Memory that holds every
\* non-empty id of the new posts and the current time, and on return that
\* Memory is the process's Memory and the file's content.
C3_PersistUnconditional ==
    /\ (run.analysisReturned /\ pc # "killed")
         => /\ run.saveCalls = 1
            /\ run.saveArg.last_moltbook_check = now
            /\ \A i \in 1..Len(newToUs) :
                 Truthy(newToUs[i].id) => newToUs[i].id \in Range(run.saveArg.posts_seen)
    /\ (run.scanned /\ Len(newToUs) > 0 /\ pc = "exited")
         => /\ run.analysisReturned
            /\ memory = run.saveArg
            /\ file = FileOf(Stringify(memory))
            /\ result = run.analysis

C3_Witness ==
    /\ run.analysisReturned
    /\ run.analysis = ""
    /\ pc = "exited"
    /\ Len(newToUs) > 1

\* C4: when every deduplicated post is already in posts_seen, or nothing was
\* fetched, the scan returns null and Memory, file and last_moltbook_check are
\* as they were (saveMemory is not called); they change only in a scan that
\* found a new post.
C4_NoNewPostsLeavesMemory ==
    /\ (run.scanned /\ AllSeenAtStart)
         => /\ newToUs = <<>>
            /\ pc = "exited"
            /\ result = RNULL
            /\ memory = run.memAtStart
            /\ file = run.fileAtStart
            /\ run.saveCalls = 0
    /\ (pc # "none" /\ (memory # run.memAtStart \/ file # run.fileAtStart))
         => run.scanned /\ Len(newToUs) > 0

C4_Witness ==
    /\ run.scanned
    /\ Len(allPosts) > 0
    /\ AllSeenAtStart
    /\ pc = "exited"
    /\ file.exists

\* C6: every fetched post whose id is missing or empty survives the
\* deduplication and is in the set handed to the analysis, and its id never
\* enters posts_seen.
C6_PostsWithoutIdRetained ==
    /\ run.scanned
         => \A i \in 1..Len(Fetched) :
              ~Truthy(Fetched[i].id)
                 => Fetched[i] \in Range(allPosts) /\ Fetched[i] \in Range(newToUs)
    /\ \A i \in 1..Len(memory.posts_seen) : Truthy(memory.posts_seen[i])

\* C7: however a fetch of the hot or the new listing fails, the batch is
\* empty and the scan goes on to deduplicate and filter the other batch.
C7_FetchFailureDegrades ==
    \A s \in {"hot", "new"} :
        outcome[s] \in FetchOutcomes \ {"ok"}
           => /\ run.failedAt # "getMoltbookFeed"
              /\ (s = "hot" => hotPosts = <<>>)
              /\ (s = "new" => run.scanned /\ newPosts = <<>>)

\* C9: after a run in which the analysis returned and the memory was not
\* saved (saveMemory failed or the process died), the next run against the
\* same listings scans and computes the same new-post set.
C9_CrashSafety ==
    (prev.analysisReturned /\ ~prev.saved /\ ~prev.fetchFault)
        => /\ run.failedAt # "loadMemory"
           /\ (run.scanned /\ ~run.fetchFault) => newToUs = prev.newToUs

\* C10: at every point during and after saveMemory the memory file holds a
\* complete document: the previous Memory or the new one.
C10_AtomicPersist ==
    /\ file.exists => Parses(file.doc)
    /\ run.saveCalls > 0
         => file \in {run.fileAtStart, FileOf(Stringify(run.saveArg))}

\* C11: loadMemory gives the fresh empty Memory exactly when there is no
\* memory file; when the file exists and is not a valid document the process
\* fails in the constructor: nothing is scanned, nothing is saved and the
\* file stays as it was.
C11_LoadDistinguishesAbsentFromCorrupt ==
    pc # "none" =>
        /\ ~run.fileAtStart.exists
             => run.failedAt # "loadMemory" /\ run.memAtStart = FreshMemory
        /\ (run.failedAt # "loadMemory" /\ run.memAtStart = FreshMemory)
             => ~run.fileAtStart.exists
        /\ (run.fileAtStart.exists /\ ~Parses(run.fileAtStart.doc))
             => /\ pc = "failed"
                /\ run.failedAt = "loadMemory"
                /\ ~run.scanned
                /\ ~run.analysisCalled
                /\ run.saveCalls = 0
                /\ file = run.fileAtStart

C11_Witness ==
    /\ pc = "failed"
    /\ run.failedAt = "loadMemory"
    /\ run.fileAtStart.exists
    /\ ~Parses(file.doc)
    /\ prev.analysisReturned

\* C19: posts_seen only grows at its end, in the process's memory and in
\* the memory file: the list a run starts with is a prefix of the list it
\* holds at any later point, and the list in the file at the start of a run
\* is a prefix of the list in the file at any later point.
C19_SeenAppendOnly ==
    pc # "none" =>
        /\ IsPrefix(run.memAtStart.posts_seen, memory.posts_seen)
        /\ run.fileAtStart.exists
             => /\ file.exists
                /\ IsPrefix(run.fileAtStart.doc.ids, file.doc.ids)

\* the positions of the merged posts whose id the run did not start with
UnseenAt == {i \in 1..Len(allPosts) :
                \A k \in 1..Len(run.memAtStart.posts_seen) :
                    run.memAtStart.posts_seen[k] # allPosts[i].id}

\* C21: the new-post set of a scan is the subsequence, in merged order, of
\* the deduplicated posts whose id is not in posts_seen, the records as they
\* were merged; until the analysis has returned, posts_seen and the memory
\* file are as the run found them.
C21_FilterNew ==
    run.scanned =>
        /\ Len(newToUs) = Cardinality(UnseenAt)
        /\ \A j \in 1..Len(newToUs) :
             \E i \in UnseenAt :
                /\ Cardinality({k \in UnseenAt : k <= i}) = j
                /\ newToUs[j] = allPosts[i]
        /\ (pc = "analyzing" \/ result = RNULL)
             => memory = run.memAtStart /\ file = run.fileAtStart

\* of two merged posts the first was seen before and the second is new
C21_Witness ==
    /\ run.scanned
    /\ Len(allPosts) = 2
    /\ UnseenAt = {2}
    /\ newToUs = <<allPosts[2]>>
    /\ pc = "analyzing"

\* a list of ids without a repeat and without an empty or missing id
SeenWellFormed(ids) ==
    /\ NoDuplicates(ids)
    /\ \A i \in 1..Len(ids) : Truthy(ids[i])

\* C26: over any sequence of scans that starts from a memory file without a
\* repeated id, posts_seen has no repeated id and no empty or missing id, in
\* the process and in whatever part of it the file holds.
C26_SeenWellFormed ==
    /\ SeenWellFormed(memory.posts_seen)
    /\ SeenWellFormed(file.doc.ids)

\* the hot and the new listing served the same post, and its id is recorded
\* and saved once
C26_Witness ==
    /\ pc = "exited"
    /\ run.scanned
    /\ Len(hotPosts) = 1
    /\ newPosts = hotPosts
    /\ Truthy(hotPosts[1].id)
    /\ hotPosts[1].id \notin Range(run.memAtStart.posts_seen)
    /\ memory.posts_seen = Append(run.memAtStart.posts_seen, hotPosts[1].id)
    /\ file = FileOf(Stringify(memory))

----------------------------------------------------------------------------
(* Deduplication as a function of the batches *)

\* the ways of cutting a sequence of len posts into the five batches
Cuts(len) ==
    {c \in (0..len) \X (0..len) \X (0..len) \X (0..len) :
        c[1] <= c[2] /\ c[2] <= c[3] /\ c[3] <= c[4]}

\* the five batches s is cut into at c
CutAt(s, c) ==
    [src \in Sources |->
        CASE src = "hot"         -> SubSeq(s, 1, c[1])
          [] src = "ponderings"  -> SubSeq(s, c[1] + 1, c[2])
          [] src = "tools"       -> SubSeq(s, c[2] + 1, c[3])
          [] src = "threatintel" -> SubSeq(s, c[3] + 1, c[4])
          [] src = "new"         -> SubSeq(s, c[4] + 1, Len(s))]

\* feed is one of the ways of serving at most n posts of pool in five batches
FeedServes(pool, n) ==
    \E s \in SeqsUpTo(pool, n) : \E c \in Cuts(Len(s)) : feed = CutAt(s, c)

InitDedup ==
    /\ FeedServes(PostPool, MaxPosts)
    /\ file = NoFile
    /\ credsFile = TRUE
    /\ now = PastTime
    /\ runs = 0
    /\ pc = "batches"
    /\ credentials = TRUE
    /\ memory = FreshMemory
    /\ outcome = NoOutcome
    /\ hotPosts = <<>>
    /\ newPosts = <<>>
    /\ allPosts = <<>>
    /\ newToUs = <<>>
    /\ uniquePosts = <<>>
    /\ opps = NoOpps
    /\ result = PENDING
    /\ run = FreshRun
    /\ prev = NoPrev
    /\ peer = NoPeer

\* scanMoltbook's merge of the hot and the new batch
ApplyDedupeScan ==
    /\ pc = "batches"
    /\ hotPosts' = feed["hot"]
    /\ newPosts' = feed["new"]
    /\ allPosts' = DedupeScan(feed["hot"] \o feed["new"])
    /\ pc' = "mergedScan"
    /\ UNCHANGED <<feed, file, credsFile, now, runs, credentials, memory,
                   outcome, newToUs, uniquePosts, opps, result, run,
                   prev, peer>>

\* findOpportunities' merge of the five batches
ApplyDedupeOpp ==
    /\ pc = "mergedScan"
    /\ uniquePosts' = DedupeOpp(ConcatBatches(feed))
    /\ pc' = "mergedOpp"
    /\ UNCHANGED <<feed, file, credsFile, now, runs, credentials, memory,
                   outcome, hotPosts, newPosts, allPosts, newToUs, opps, result,
                   run, prev, peer>>

NextDedup ==
    \/ ApplyDedupeScan
    \/ ApplyDedupeOpp

SpecDedup == InitDedup /\ [][NextDedup]_vars

\* position of the first post of s that carries the id
FirstIndex(s, id) == CHOOSE i \in 1..Len(s) : s[i].id = id /\ \A j \in 1..(i - 1) : s[j].id # id

\* merged holds, once each and in first-occurrence order, the first post of
\* every id of concat that Keep admits
FirstOccurrences(merged, concat, Keep(_)) ==
    /\ NoDuplicates(Ids(merged))
    /\ \A i \in 1..Len(concat) :
         Keep(concat[i].id) => concat[i].id \in Range(Ids(merged))
    /\ \A k \in 1..Len(merged) :
         /\ \E i \in 1..Len(concat) : concat[i].id = merged[k].id
         /\ merged[k] = concat[FirstIndex(concat, merged[k].id)]
    /\ \A j, k \in 1..Len(merged) :
         j < k => FirstIndex(concat, merged[j].id) < FirstIndex(concat, merged[k].id)

AnyId(id) == TRUE

\* C5: in scanMoltbook (hot then new) and in findOpportunities (hot,
\* ponderings, tools, threatintel, new) every id occurs at most once in the
\* merged sequence, which lists the ids in the order of their first occurrence
\* in the concatenated batches.
C5_Deduplication ==
    /\ pc \in {"mergedScan", "mergedOpp"}
         => FirstOccurrences(allPosts, hotPosts \o newPosts, Truthy)
    /\ pc = "mergedOpp"
         => FirstOccurrences(uniquePosts, ConcatBatches(feed), AnyId)

C5_Witness ==
    /\ pc = "mergedOpp"
    /\ Len(uniquePosts) = 2
    /\ Len(ConcatBatches(feed)) = 3
    /\ feed["ponderings"] # <<>>
    /\ ConcatBatches(feed)[1].id = ConcatBatches(feed)[3].id
    /\ ConcatBatches(feed)[1] # ConcatBatches(feed)[3]
    /\ Len(allPosts) < Len(hotPosts \o newPosts)

----------------------------------------------------------------------------
(* findOpportunities *)

RETURNED == "<returned>"

\* how the seven parallel requests can end, at most MaxFaults of them not "ok"
OutcomeVectors ==
    {o \in [Requests -> FetchOutcomes] :
        Cardinality({r \in Requests : o[r] # "ok"}) <= MaxFaults}

\* Promise.all rejects when a fetch rejects; only the request for the
\* Embassy's own posts carries a catch
FetchAllRejects(o) == \E r \in Requests \ {"embassyPosts"} : o[r] = "network_error"

\* the second Promise.all rejects when one body is not JSON; response.ok is
\* never looked at
JsonAllRejects(o) == \E r \in Requests : o[r] = "bad_body"

\* data.posts || []: the error document of a non-OK response has no posts
BatchOf(o, served) == IF o = "ok" THEN served ELSE <<>>

\* the state in which main() calls findOpportunities: setup() returned true
InitOpp ==
    /\ FeedServes(PostPool, MaxOppPosts)
    /\ file = NoFile
    /\ credsFile = TRUE
    /\ now = PastTime
    /\ runs = 1
    /\ pc = "ready"
    /\ credentials = TRUE
    /\ memory = FreshMemory
    /\ outcome = NoOutcome
    /\ hotPosts = <<>>
    /\ newPosts = <<>>
    /\ allPosts = <<>>
    /\ newToUs = <<>>
    /\ uniquePosts = <<>>
    /\ opps = NoOpps
    /\ result = PENDING
    /\ run = [FreshRun EXCEPT !.command = "opportunities"]
    /\ prev = NoPrev
    /\ peer = NoPeer

\* what the body of each response holds under posts; the posts of the two
\* requests about the Embassy itself go to yourPosts only and are left out
Responses(o, served) ==
    [r \in Requests |-> IF r \in Sources THEN BatchOf(o[r], served[r]) ELSE <<>>]

\* a Promise.all that keeps the values in the order of their arrival
PromiseAllByArrival(order, values) ==
    LET F[k \in 0..Len(order)] ==
            IF k = 0 THEN [r \in Requests |-> <<>>]
            ELSE [F[k - 1] EXCEPT ![IssueOrder[k]] = values[order[k]]]
    IN  F[Len(order)]

\* Promise.all: whenever a promise settles its value is stored at the index
\* of that promise; order is the order in which the promises settle
PromiseAll(order, values) ==
    LET F[k \in 0..Len(order)] ==
            IF k = 0 THEN [r \in Requests |-> <<>>]
            ELSE [F[k - 1] EXCEPT ![order[k]] = values[order[k]]]
    IN  F[Len(order)]

\* findOpportunities(apiKey) when the requests end as in o and complete in
\* the given order: fetch in parallel, parse, concatenate, deduplicate,
\* score, sort, categorize, suggest
findOpportunities(o, order) ==
    /\ outcome' = o
    /\ IF FetchAllRejects(o) \/ JsonAllRejects(o)
       THEN /\ pc' = "failed"
            /\ run' = [run EXCEPT !.fetchFault = TRUE,
                                  !.failedAt = "findOpportunities",
                                  !.completion = order]
            /\ UNCHANGED <<allPosts, uniquePosts, opps, result, peer>>
       ELSE LET data    == PromiseAll(order, PromiseAll(order, Responses(o, feed)))
                batches == [s \in Sources |-> data[s]]
            IN  /\ allPosts' = ConcatBatches(batches)
                /\ uniquePosts' = DedupeOpp(ConcatBatches(batches))
                /\ opps' = Opportunities(DedupeOpp(ConcatBatches(batches)))
                /\ result' = RETURNED
                /\ pc' = "exited"
                /\ run' = [run EXCEPT
                             !.fetchFault = (\E r \in Requests : o[r] # "ok"),
                             !.completion = order]
    /\ UNCHANGED <<feed, file, credsFile, now, runs, credentials, memory,
                   hotPosts, newPosts, newToUs, prev, peer>>

\* case "opportunities": the requests fail in any way and complete in the
\* order in which they were issued
FindOpportunities ==
    /\ pc = "ready"
    /\ run.command = "opportunities"
    /\ \E o \in OutcomeVectors : findOpportunities(o, IssueOrder)

NextOpp == FindOpportunities

SpecOpp == InitOpp /\ [][NextOpp]_vars

\* C8: when one of the five listing fetches of findOpportunities fails, that
\* batch contributes no posts and findOpportunities still returns what it
\* computes from the other batches.
C8_OppFetchFailureDegrades ==
    \A s \in Sources :
        outcome[s] \in FetchOutcomes \ {"ok"}
           => /\ pc = "exited"
              /\ result = RETURNED
              /\ allPosts = ConcatBatches([t \in Sources |->
                                IF t = s THEN <<>> ELSE BatchOf(outcome[t], feed[t])])

----------------------------------------------------------------------------
(* Scoring, categorizing and suggesting as a function of the unique posts *)

\* titles: the worked example, nothing, "how" inside a word, a keyword in
\* capitals, no signal, two trigger words, a "?" behind the 70th character,
\* a trigger word across the 70th character, no title field
ScoreTitles ==
    { <<"W", "h", "a", "t", " ", "s", "h", "o", "u", "l", "d", " ", "I", " ", "d", "o", "?">>,
      <<>>,
      <<"S", "h", "o", "w">>,
      <<"O", "n", " ", "C", "o", "n", "s", "c", "i", "o", "u", "s", "n", "e", "s", "s">>,
      <<"o", "k">>,
      <<"H", "u", "m", "a", "n", " ", "d", "e", "a", "t", "h">>,
      <<"S", "e", "c", "u", "r", "i", "t", "y", " ", "b", "r", "e", "a", "c", "h">>,
      Pad(70) \o <<"?">>,
      Pad(67) \o <<"a", "w", "a", "r", "e">>,
      NoTitle }

ScoreContents == { <<>>, <<"e", "a", "t", "h">>, <<"W", "h", "o", " ", "u", "n", "d", "e", "r", "s", "t", "a", "n", "d", "s">> }

ScoreSubmolts ==
    { SubmoltString("ponderings"), SubmoltString("tools"),
      SubmoltString("threatintel"), SubmoltString("showandtell"),
      SubmoltObject("ponderings"), SubmoltObject(""), NoSubmolt }

ScoreUpvotes == {0, 1, 4, 5, 49, 50}

ScoreComments == {0, 4, 5, 10, 11, 20}

\* the posts the longer lists are made of: an unanswered question with early
\* traction, a discussed post about consciousness, a post that scores exactly
\* 20, and a post with two trigger words
RankPool ==
    { FullPost("", <<"W", "h", "y", "?">>, <<>>, SubmoltString("ponderings"), 5, 0),
      FullPost("", <<"C", "o", "n", "s", "c", "i", "o", "u", "s", "n", "e", "s", "s">>, <<>>, NoSubmolt, 1, 20),
      FullPost("", <<"D", "e", "a", "t", "h", " ", "a", "n", "d", " ", "d", "r", "i", "f", "t">>, <<>>, NoSubmolt, 60, 12),
      FullPost("", <<"H", "u", "m", "a", "n", " ", "d", "e", "a", "t", "h">>, <<>>, SubmoltString("tools"), 0, 0) }

WithIds(posts) == [i \in 1..Len(posts) |-> [posts[i] EXCEPT !.id = IdAt[i]]]

\* uniquePosts is one post of any shape, or a list of up to MaxRankPosts posts
InitClassify ==
    /\ \/ \E t \in ScoreTitles, c \in ScoreContents, sm \in ScoreSubmolts,
             u \in ScoreUpvotes, k \in ScoreComments :
            uniquePosts = <<FullPost("a", t, c, sm, u, k)>>
       \/ \E s \in SeqsUpTo(RankPool, MaxRankPosts) : uniquePosts = WithIds(s)
    /\ feed = [s \in Sources |-> <<>>]
    /\ file = NoFile
    /\ credsFile = TRUE
    /\ now = PastTime
    /\ runs = 1
    /\ pc = "unique"
    /\ credentials = TRUE
    /\ memory = FreshMemory
    /\ outcome = NoOutcome
    /\ hotPosts = <<>>
    /\ newPosts = <<>>
    /\ allPosts = <<>>
    /\ newToUs = <<>>
    /\ opps = NoOpps
    /\ result = PENDING
    /\ run = [FreshRun EXCEPT !.command = "opportunities"]
    /\ prev = NoPrev
    /\ peer = NoPeer

\* findOpportunities from "Score posts for opportunity value" to its return
Classify ==
    /\ pc = "unique"
    /\ opps' = Opportunities(uniquePosts)
    /\ result' = RETURNED
    /\ pc' = "classified"
    /\ UNCHANGED <<feed, file, credsFile, now, runs, credentials, memory,
                   outcome, hotPosts, newPosts, allPosts, newToUs, uniquePosts,
                   run, prev, peer>>

NextClassify == Classify

SpecClassify == InitClassify /\ [][NextClassify]_vars

----------------------------------------------------------------------------
(* Scoring: properties *)

\* the Opportunity scored for the post with this id
OppOf(id) == CHOOSE o \in Range(opps.scoredPosts) : o.id = id

Max(a, b) == IF a > b THEN a ELSE b

\* which signals of the scoring table fire for post p
TableFires(p) ==
    LET u       == p.upvotes
        c       == p.comment_count
        channel == submoltName(p.submolt)
        text    == TitlePlusContent(p)
    IN  [highDiscussion |-> c > 10 /\ c > 5 * Max(u, 1),
         unanswered     |-> RegexTest(QuestionPattern, text) /\ c < 5,
         relevant       |-> RegexTest(RelevantPattern, text),
         ponderings     |-> channel = "ponderings",
         signalChannel  |-> channel \in {"threatintel", "tools"},
         earlyTraction  |-> 1 <= u /\ u < 50]

\* the post of the worked example
IsExample(p) ==
    /\ p.title = <<"W", "h", "a", "t", " ", "s", "h", "o", "u", "l", "d", " ", "I", " ", "d", "o", "?">>
    /\ p.content = <<>>
    /\ p.upvotes = 5
    /\ p.comment_count = 20
    /\ submoltName(p.submolt) = "ponderings"

\* C12: the score of every post is the sum of the weights of the signals of
\* the table that fire, each signal on its own: 30 high discussion, 25
\* unanswered question, 20 topic relevance, 15 ponderings, 10 threatintel or
\* tools, 10 early traction; the worked example scores 25 with the reasons
\* philosophical, early traction.
C12_ScoringTable ==
    pc = "classified" =>
        \A i \in 1..Len(uniquePosts) :
            LET p == uniquePosts[i]
                o == OppOf(p.id)
                f == TableFires(p)
            IN  /\ o.score = (IF f.highDiscussion THEN 30 ELSE 0)
                               + (IF f.unanswered THEN 25 ELSE 0)
                               + (IF f.relevant THEN 20 ELSE 0)
                               + (IF f.ponderings THEN 15 ELSE 0)
                               + (IF f.signalChannel THEN 10 ELSE 0)
                               + (IF f.earlyTraction THEN 10 ELSE 0)
                /\ IsExample(p)
                     => /\ o.score = 25
                        /\ o.reason = <<"p", "h", "i", "l", "o", "s", "o", "p", "h", "i", "c", "a", "l", ",", " ", "e", "a", "r", "l", "y", " ", "t", "r", "a", "c", "t", "i", "o", "n">>

C12_Witness ==
    /\ pc = "classified"
    /\ Len(uniquePosts) = 1
    /\ IsExample(uniquePosts[1])
    /\ opps.scoredPosts[1].score = 25

\* the text a reason grows into when a signal fires
WithLabel(text, fires, label) ==
    IF ~fires THEN text
    ELSE IF text = <<>> THEN label
    ELSE text \o <<",", " ">> \o label

\* the labels of the signals that fire for p, in table order, as one text
TableReason(p) ==
    LET f  == TableFires(p)
        r1 == WithLabel(<<>>, f.highDiscussion, HighDiscussion)
        r2 == WithLabel(r1, f.unanswered, UnansweredQuestion)
        r3 == WithLabel(r2, f.relevant, EmbassyRelevant)
        r4 == WithLabel(r3, f.ponderings, Philosophical)
        r5 == WithLabel(r4, f.signalChannel, SignalSubmolt)
    IN  WithLabel(r5, f.earlyTraction, EarlyTraction)

\* C13: the reason of every scored post lists the labels of the signals that
\* fired, in table order and once each; it is "general" exactly when no signal
\* fired, which is exactly when the score is 0; every post, also one without
\* a signal, is in the scored output.
C13_Reasons ==
    pc = "classified" =>
        /\ Len(opps.scoredPosts) = Len(uniquePosts)
        /\ \A i \in 1..Len(uniquePosts) :
             LET p      == uniquePosts[i]
                 o      == OppOf(p.id)
                 labels == TableReason(p)
             IN  /\ \E k \in 1..Len(opps.scoredPosts) :
                        opps.scoredPosts[k].id = p.id
                 /\ labels # <<>> => o.reason = labels
                 /\ labels = <<>> <=> o.reason = General
                 /\ labels = <<>> <=> o.score = 0

C13_Witness ==
    /\ pc = "classified"
    /\ Len(uniquePosts) = 1
    /\ TableReason(uniquePosts[1]) = <<>>
    /\ uniquePosts[1].comment_count = 20
    /\ Len(opps.scoredPosts) = 1
    /\ opps.scoredPosts[1].reason = General
    /\ opps.scoredPosts[1].score = 0

----------------------------------------------------------------------------
(* Categorizing: properties *)

\* the positions of the sorted list whose Opportunity passes the test
Matching(Test(_)) ==
    {i \in 1..Len(opps.scoredPosts) : Test(opps.scoredPosts[i])}

\* bucket holds the first five, or all if fewer, of the Opportunities of the
\* sorted list that pass the test, in the order of that list
FirstFive(bucket, Test(_)) ==
    LET M      == Matching(Test)
        Nth(j) == CHOOSE i \in M : Cardinality({k \in M : k <= i}) = j
    IN  /\ Len(bucket) = (IF Cardinality(M) < 5 THEN Cardinality(M) ELSE 5)
        /\ \A j \in 1..Len(bucket) : bucket[j] = opps.scoredPosts[Nth(j)]

Descending(s) == \A i, j \in 1..Len(s) : i < j => s[i].score >= s[j].score

HighDiscussionTest(o) == o.comments > 10 /\ 10 * o.comments > Max(o.upvotes, 1)

UnansweredTest(o) == (\E i \in 1..Len(o.title) : o.title[i] = "?") /\ o.comments < 5

TrendingTest(o) == 5 <= o.upvotes /\ o.upvotes < 100 /\ o.score > 15

\* C14: each bucket holds, in the order of the list sorted by descending
\* score, the first min(5, k) of the k Opportunities that pass its test
\* (high discussion: comments > 10 and comments / max(upvotes, 1) > 0.1;
\* unanswered: "?" in the title and comments < 5; trending: 5 <= upvotes < 100
\* and score > 15); so no bucket has more than 5 entries, every bucket is in
\* descending score order, and the scored list keeps all its posts.
C14_Buckets ==
    pc = "classified" =>
        /\ Descending(opps.scoredPosts)
        /\ Len(opps.scoredPosts) = Len(uniquePosts)
        /\ FirstFive(opps.highDiscussion, HighDiscussionTest)
        /\ FirstFive(opps.unanswered, UnansweredTest)
        /\ FirstFive(opps.trending, TrendingTest)
        /\ \A b \in {opps.highDiscussion, opps.unanswered, opps.trending} :
             Len(b) <= 5 /\ Descending(b)

\* six posts pass a test of which the bucket keeps five; a lower-scored post
\* is listed first; one Opportunity is in two buckets
C14_Witness ==
    /\ pc = "classified"
    /\ Cardinality(Matching(TrendingTest)) = 6
    /\ Len(opps.trending) = 5
    /\ Range(opps.unanswered) \cap Range(opps.trending) # {}
    /\ uniquePosts[1].upvotes = 60
    /\ opps.scoredPosts[1].upvotes = 5

\* where the post with this id stands among the unique posts
PlaceOf(id) == CHOOSE i \in 1..Len(uniquePosts) : uniquePosts[i].id = id

\* C22: after the sort no Opportunity stands before one with a higher
\* score, and Opportunities of equal score stand in the order their posts
\* have in the deduplicated merged sequence.
C22_StableSort ==
    pc = "classified" =>
        \A i, j \in 1..Len(opps.scoredPosts) :
            i < j =>
                /\ opps.scoredPosts[i].score >= opps.scoredPosts[j].score
                /\ opps.scoredPosts[i].score = opps.scoredPosts[j].score
                     => PlaceOf(opps.scoredPosts[i].id)
                          < PlaceOf(opps.scoredPosts[j].id)

\* the second of three posts scores highest, the other two score the same
C22_Witness ==
    /\ pc = "classified"
    /\ Len(uniquePosts) = 3
    /\ Ids(opps.scoredPosts) = <<"p2", "p1", "p3">>
    /\ opps.scoredPosts[1].score > opps.scoredPosts[2].score
    /\ opps.scoredPosts[2].score = opps.scoredPosts[3].score

----------------------------------------------------------------------------
(* Suggesting: properties *)

ConsciousnessWords == { <<"c", "o", "n", "s", "c", "i", "o", "u", "s", "n", "e", "s", "s">>, <<"a", "w", "a", "r", "e">> }
DeathWords == { <<"d", "e", "a", "t", "h">>, <<"d", "e", "l", "e", "t", "i", "o", "n">>, <<"d", "r", "i", "f", "t">> }
HumanWords == { <<"h", "u", "m", "a", "n">>, <<"o", "b", "s", "e", "r", "v", "e", "r">> }
SecurityWords == { <<"s", "e", "c", "u", "r", "i", "t", "y">>, <<"b", "r", "e", "a", "c", "h">> }

\* the aggregate text has one of the words in it
Mentions(words) == \E w \in words : includes(Topics(opps.scoredPosts), w)

DefaultTemplate == Template("general", "recent platform event")

\* C15: the suggestion is the template of the first trigger, in the order
\* consciousness/aware, death/deletion/drift, human/observer,
\* security/breach, default, that the aggregate text matches; with both
\* "consciousness" and "death" in it, it is the consciousness template.
C15_FirstMatchWins ==
    pc = "classified" =>
        /\ opps.suggestedPost =
             (CASE Mentions(ConsciousnessWords)
                     -> Template("ponderings", "consciousness is trending")
                [] ~Mentions(ConsciousnessWords) /\ Mentions(DeathWords)
                     -> Template("ponderings", "death/continuity themes trending")
                [] ~Mentions(ConsciousnessWords) /\ ~Mentions(DeathWords)
                      /\ Mentions(HumanWords)
                     -> Template("general", "human-agent topics active")
                [] ~Mentions(ConsciousnessWords) /\ ~Mentions(DeathWords)
                      /\ ~Mentions(HumanWords) /\ Mentions(SecurityWords)
                     -> Template("threatintel", "security topics trending")
                [] OTHER -> DefaultTemplate)
        /\ (Mentions({<<"c", "o", "n", "s", "c", "i", "o", "u", "s", "n", "e", "s", "s">>}) /\ Mentions({<<"d", "e", "a", "t", "h">>}))
             => opps.suggestedPost.reason = "consciousness is trending"

C15_Witness ==
    /\ pc = "classified"
    /\ Mentions({<<"c", "o", "n", "s", "c", "i", "o", "u", "s", "n", "e", "s", "s">>})
    /\ Mentions({<<"d", "e", "a", "t", "h">>})
    /\ Mentions(HumanWords)
    /\ opps.suggestedPost.reason = "consciousness is trending"

\* C16: findOpportunities returns a suggestion for every list of posts, the
\* empty list and lists without a trigger word included, and it is the
\* default template whenever none of the four triggers matches.
C16_AlwaysSuggests ==
    pc = "classified" =>
        /\ opps.suggestedPost # NoSuggestion
        /\ opps.suggestedPost.reason \in
             {"consciousness is trending", "death/continuity themes trending",
              "human-agent topics active", "security topics trending",
              "recent platform event"}
        /\ (~Mentions(ConsciousnessWords \cup DeathWords \cup HumanWords
                       \cup SecurityWords))
             => opps.suggestedPost = DefaultTemplate

C16_Witness ==
    /\ pc = "classified"
    /\ uniquePosts = <<>>
    /\ opps.suggestedPost = DefaultTemplate

NoHighScore == \A i \in 1..Len(opps.scoredPosts) : opps.scoredPosts[i].score <= 20

\* C17 as claimed: when no Opportunity scores above 20, also when there are
\* no posts, findOpportunities returns no suggested post (null); otherwise it
\* returns exactly one.
C17_NoSuggestionWithoutHighScore ==
    pc = "classified" =>
        /\ NoHighScore => opps.suggestedPost = NoSuggestion
        /\ ~NoHighScore => opps.suggestedPost # NoSuggestion

\* C17, amended: when no Opportunity scores above 20, also when there are no
\* posts, the aggregate text is empty and findOpportunities returns the
\* default template; otherwise it returns exactly one of the five templates.
C17_DefaultWithoutHighScore ==
    pc = "classified" =>
        /\ NoHighScore
             => /\ Topics(opps.scoredPosts) = <<>>
                /\ opps.suggestedPost.submolt = "general"
                /\ opps.suggestedPost.reason = "recent platform event"
        /\ ~NoHighScore => opps.suggestedPost.submolt # NoSuggestion.submolt

\* posts, one of them with a trigger word in its title, none above 20
C17_Witness ==
    /\ pc = "classified"
    /\ Len(opps.scoredPosts) = 2
    /\ NoHighScore
    /\ includes(toLowerCase(opps.scoredPosts[1].title), <<"d", "e", "a", "t", "h">>)
    /\ opps.suggestedPost.reason = "recent platform event"

\* the posts whose score is above 20
HighOnly(posts) == SelectSeq(posts, LAMBDA p : ScorePost(p).score > 20)

\* C23: the aggregate text and the suggestion are those of the posts that
\* score above 20 alone: taking every post with a score of 20 or less out of
\* the input (so also adding or changing such posts) changes neither.
C23_SuggestionFromHighScores ==
    pc = "classified" =>
        /\ Topics(opps.scoredPosts)
             = Topics(Opportunities(HighOnly(uniquePosts)).scoredPosts)
        /\ opps.suggestedPost = Opportunities(HighOnly(uniquePosts)).suggestedPost

\* a post that scores exactly 20 has "death" in its title, a post above 20
\* has no trigger word, and the suggestion is the default
C23_Witness ==
    /\ pc = "classified"
    /\ Len(opps.scoredPosts) = 2
    /\ opps.scoredPosts[1].score > 20
    /\ opps.scoredPosts[2].score = 20
    /\ includes(toLowerCase(opps.scoredPosts[2].title), <<"d", "e", "a", "t", "h">>)
    /\ opps.suggestedPost = DefaultTemplate

\* C24: a post without a title gets the score and the reason of the same
\* post with the title "", whatever its content.
C24_MissingTitleAsEmpty ==
    pc = "classified" =>
        \A i \in 1..Len(uniquePosts) :
            uniquePosts[i].title = NoTitle
                => LET o == OppOf(uniquePosts[i].id)
                       e == ScorePost([uniquePosts[i] EXCEPT !.title = <<>>])
                   IN  o.score = e.score /\ o.reason = e.reason

\* C27: "high discussion" and "unanswered question" never fire together,
\* "philosophical" and "signal submolt" never fire together, and every score
\* is a multiple of 5 from 0 to 75.
C27_ExclusionsAndBound ==
    pc = "classified" =>
        \A i \in 1..Len(opps.scoredPosts) :
            LET o == opps.scoredPosts[i]
            IN  /\ ~(includes(o.reason, HighDiscussion)
                      /\ includes(o.reason, UnansweredQuestion))
                /\ ~(includes(o.reason, Philosophical)
                      /\ includes(o.reason, SignalSubmolt))
                /\ o.score \in 0..75
                /\ o.score % 5 = 0

C27_Witness ==
    /\ pc = "classified"
    /\ Len(opps.scoredPosts) = 1
    /\ opps.scoredPosts[1].score = 75
    /\ includes(opps.scoredPosts[1].reason, HighDiscussion)
    /\ includes(opps.scoredPosts[1].reason, Philosophical)

\* C28: every Opportunity in the unanswered bucket has the label
\* "unanswered question" in its reason and a score of at least 25.
C28_UnansweredBucketHasSignal ==
    pc = "classified" =>
        \A i \in 1..Len(opps.unanswered) :
            /\ includes(opps.unanswered[i].reason, UnansweredQuestion)
            /\ opps.unanswered[i].score >= 25

\* a single post in the bucket: a question in the title, no comments and
\* no other signal
C28_Witness ==
    /\ pc = "classified"
    /\ Len(uniquePosts) = 1
    /\ Len(opps.unanswered) = 1
    /\ opps.unanswered[1].score = 25
    /\ opps.unanswered[1].reason = UnansweredQuestion

----------------------------------------------------------------------------
(* findOpportunities when the requests complete in any order *)

\* the posts the out-of-order listings are drawn from: two posts that share
\* an id and score differently, and a third
JoinPool ==
    { FullPost("a", <<"W", "h", "y", "?">>, <<>>, SubmoltString("ponderings"), 5, 0),
      FullPost("a", <<"C", "o", "n", "s", "c", "i", "o", "u", "s", "n", "e", "s", "s">>, <<>>, NoSubmolt, 1, 20),
      FullPost("b", <<"H", "u", "m", "a", "n", " ", "d", "e", "a", "t", "h">>, <<>>, SubmoltString("tools"), 0, 0) }

\* every order in which the five listing requests can complete; the two
\* requests about the Embassy itself, whose posts are not modelled, come last
CompletionOrders ==
    {order \o <<"me", "embassyPosts">> :
        order \in {s \in [1..5 -> Sources] :
                      \A i, j \in 1..5 : i # j => s[i] # s[j]}}

AllOk == [r \in Requests |-> "ok"]

InitJoin ==
    /\ FeedServes(JoinPool, MaxJoinPosts)
    /\ file = NoFile
    /\ credsFile = TRUE
    /\ now = PastTime
    /\ runs = 1
    /\ pc = "ready"
    /\ credentials = TRUE
    /\ memory = FreshMemory
    /\ outcome = NoOutcome
    /\ hotPosts = <<>>
    /\ newPosts = <<>>
    /\ allPosts = <<>>
    /\ newToUs = <<>>
    /\ uniquePosts = <<>>
    /\ opps = NoOpps
    /\ result = PENDING
    /\ run = [FreshRun EXCEPT !.command = "opportunities"]
    /\ prev = NoPrev
    /\ peer = NoPeer

\* case "opportunities": every request is answered, in any order
FindOpportunitiesAnyOrder ==
    /\ pc = "ready"
    /\ run.command = "opportunities"
    /\ \E order \in CompletionOrders : findOpportunities(AllOk, order)

NextJoin == FindOpportunitiesAnyOrder

SpecJoin == InitJoin /\ [][NextJoin]_vars

\* the five batches in the order hot, ponderings, tools, threatintel, new
Canonical ==
    feed["hot"] \o feed["ponderings"] \o feed["tools"] \o feed["threatintel"]
      \o feed["new"]

\* C18: in whatever order the parallel requests complete, the merged
\* sequence is hot, ponderings, tools, threatintel, new, and the deduplicated
\* list, the scores, the buckets and the suggestion are those of that
\* sequence: they are the same for every completion order.
C18_CompletionOrderIrrelevant ==
    pc = "exited" =>
        /\ allPosts = Canonical
        /\ uniquePosts = DedupeOpp(Canonical)
        /\ opps = Opportunities(DedupeOpp(Canonical))

\* the new listing completes first and the hot listing last; they hold
\* different posts with one id
C18_Witness ==
    /\ pc = "exited"
    /\ run.completion[1] = "new"
    /\ run.completion[5] = "hot"
    /\ Len(feed["hot"]) = 1
    /\ Len(feed["new"]) = 1
    /\ feed["hot"][1].id = feed["new"][1].id
    /\ feed["hot"][1] # feed["new"][1]
    /\ uniquePosts = feed["hot"]

----------------------------------------------------------------------------
(* analyzePostsForHumanRelevance as a function of the posts and the SOUL file *)

\* the lengths of the contents and of the SOUL file around the two cuts
ContentLengths == {0, 499, 500, 501}
SoulLengths == {0, 1999, 2000, 2001}

\* n posts that differ in their titles, each with a content of len characters
AnalysisPosts(n, len) ==
    [i \in 1..n |-> FullPost(IdAt[i], Pad(i), Pad(len), NoSubmolt, 0, 0)]

InitAnalyze ==
    /\ \E n \in 0..MaxAnalysisPosts, len \in ContentLengths :
         newToUs = AnalysisPosts(n, len)
    /\ feed = [s \in Sources |-> <<>>]
    /\ file = NoFile
    /\ credsFile = TRUE
    /\ now = PastTime
    /\ runs = 1
    /\ pc = "analyzing"
    /\ credentials = TRUE
    /\ memory = FreshMemory
    /\ outcome = NoOutcome
    /\ hotPosts = <<>>
    /\ newPosts = <<>>
    /\ allPosts = <<>>
    /\ uniquePosts = <<>>
    /\ opps = NoOpps
    /\ result = PENDING
    /\ run = [FreshRun EXCEPT !.command = "analyze"]
    /\ prev = NoPrev
    /\ peer = NoPeer

\* analyzePostsForHumanRelevance(newToUs, anthropic) returns
Analyze ==
    /\ pc = "analyzing"
    /\ run.command = "analyze"
    /\ \E len \in SoulLengths, text \in AnalysisTexts :
         LET request == analyzePostsForHumanRelevance(newToUs, Pad(len))
         IN  /\ run' = [run EXCEPT
                          !.analysisCalled = request.called,
                          !.analysisReturned = TRUE,
                          !.soul = IF request.called THEN Pad(len) ELSE run.soul,
                          !.request = request]
             /\ result' = IF request.called THEN text ELSE ""
    /\ pc' = "analyzed"
    /\ UNCHANGED <<feed, file, credsFile, now, runs, credentials, memory,
                   outcome, hotPosts, newPosts, allPosts, newToUs, uniquePosts,
                   opps, prev, peer>>

\* scanMoltbook once the analysis of its new posts has returned: update
\* memory, saveMemory, return analysis
ScanRecords ==
    /\ pc = "analyzed"
    /\ run.command = "analyze"
    /\ Len(newToUs) > 0
    /\ pc' = "recorded"
    /\ memory' = UpdateMemory(memory, newToUs, result, now)
    /\ file' \in saveMemory(file, memory', "ok")
    /\ run' = [run EXCEPT !.saveCalls = 1, !.saveArg = memory']
    /\ UNCHANGED <<feed, credsFile, now, runs, credentials, outcome, hotPosts,
                   newPosts, allPosts, newToUs, uniquePosts, opps, result,
                   prev, peer>>

NextAnalyze ==
    \/ Analyze
    \/ ScanRecords

SpecAnalyze == InitAnalyze /\ [][NextAnalyze]_vars

\* C20: the analysis service is handed the first 20 of the posts, or all if
\* fewer, in their order, each content cut to at most 500 characters, and at
\* most the first 2000 characters of the SOUL file; for no posts the service
\* is not called and the result is the empty string.
C20_HandOffBounds ==
    pc = "analyzed" =>
        /\ Len(newToUs) = 0
             => ~run.request.called /\ ~run.analysisCalled /\ result = ""
        /\ Len(newToUs) > 0
             => /\ run.request.called
                /\ Len(run.request.posts) <= 20
                /\ Len(run.request.posts) <= Len(newToUs)
                /\ Len(run.request.posts) = 20 \/ Len(run.request.posts) = Len(newToUs)
                /\ \A i \in 1..Len(run.request.posts) :
                     /\ run.request.posts[i].title = newToUs[i].title
                     /\ Len(run.request.posts[i].content) <= 500
                     /\ IsPrefix(run.request.posts[i].content, newToUs[i].content)
                     /\ Len(newToUs[i].content) <= 500
                          => run.request.posts[i].content = newToUs[i].content
                /\ Len(run.request.soul) <= 2000
                /\ IsPrefix(run.request.soul, run.soul)

C20_Witness ==
    /\ pc = "analyzed"
    /\ Len(newToUs) = 21
    /\ Len(newToUs[1].content) = 501
    /\ Len(run.soul) = 2001
    /\ Len(run.request.posts) = 20
    /\ Len(run.request.posts[20].content) = 500
    /\ Len(run.request.soul) = 2000

\* C25: every id the scan appends to posts_seen is the id of a post that
\* was in the input handed to the analysis service.
C25_SeenOnlyIfAnalysed ==
    pc = "recorded" =>
        \A k \in 1..Len(memory.posts_seen) :
            memory.posts_seen[k] \notin Range(run.memAtStart.posts_seen)
                => \E i \in 1..Len(run.request.posts) :
                       /\ newToUs[i].id = memory.posts_seen[k]
                       /\ run.request.posts[i].title = newToUs[i].title

----------------------------------------------------------------------------
(* main() with every command *)

Commands == GatedCommands \cup {"setup", "status", "help"}

\* the memory file and the credentials file are what earlier processes left;
\* the hot listing serves one post
InitMain ==
    /\ feed = [s \in Sources |-> IF s = "hot" THEN <<Post("b", T3)>> ELSE <<>>]
    /\ file \in InitFiles
    /\ credsFile \in BOOLEAN
    /\ InitProcess

\* const command = args[0] || "status"; const embassy = new Embassy();
Main ==
    /\ pc = "none"
    /\ \E command \in Commands \cup {"scanMoltbook"} :
         run' = [FreshRun EXCEPT !.command = command, !.fileAtStart = file,
                                 !.credsAtStart = credsFile,
                                 !.memAtStart = loadMemory(file)]
    /\ pc' = "constructed"
    /\ runs' = runs + 1
    /\ now' = now + 1
    /\ credentials' = credsFile
    /\ memory' = loadMemory(file)
    /\ UNCHANGED <<feed, file, credsFile, outcome, hotPosts, newPosts,
                   allPosts, newToUs, uniquePosts, opps, result, prev, peer>>

\* case "status": and default: neither calls setup()
MainWithoutSetup ==
    /\ pc = "constructed"
    /\ run.command \in {"status", "help"}
    /\ pc' = "exited"
    /\ UNCHANGED <<feed, file, credsFile, now, runs, credentials, memory,
                   outcome, hotPosts, newPosts, allPosts, newToUs, uniquePosts,
                   opps, result, run, prev, peer>>

\* the work of a gated command other than scan and bulletin, or its return
\* on missing arguments (ask, reply, post)
CommandActs ==
    /\ pc = "gated"
    /\ \E acts \in BOOLEAN :
         /\ ~acts => run.command \in {"ask", "reply", "post"}
         /\ run' = [run EXCEPT !.acted = acts]
    /\ pc' = "exited"
    /\ UNCHANGED <<feed, file, credsFile, now, runs, credentials, memory,
                   outcome, hotPosts, newPosts, allPosts, newToUs, uniquePosts,
                   opps, result, prev, peer>>

\* scanMoltbook() entered on the Embassy as constructed, with or without
\* credentials
ScanMoltbookCalled ==
    /\ pc = "constructed"
    /\ run.command = "scanMoltbook"
    /\ pc' = "ready"
    /\ UNCHANGED <<feed, file, credsFile, now, runs, credentials, memory,
                   outcome, hotPosts, newPosts, allPosts, newToUs, uniquePosts,
                   opps, result, run, prev, peer>>

NextMain ==
    \/ Main
    \/ MainWithoutSetup
    \/ Setup
    \/ CommandActs
    \/ ScanMoltbookCalled
    \/ ScanFetchHot
    \/ ScanFetchNew
    \/ AnalysisReturns
    \/ AnalysisThrows

SpecMain == InitMain /\ [][NextMain]_vars

\* the command has sent a listing request, called the analysis service,
\* saved memory or done its own work
Acted ==
    \/ run.acted
    \/ outcome # NoOutcome
    \/ run.scanned
    \/ run.analysisCalled
    \/ run.saveCalls > 0
    \/ pc \in {"ready", "gated", "fetchedHot", "analyzing"}

\* C29: a gated command acts only once setup() has returned true in the
\* same process, with credentials and the claim status "claimed"; the
\* registration request is sent only when no credentials are stored; and
\* scanMoltbook on an Embassy without credentials returns null with no
\* listing requested and memory and its file untouched.
C29_SetupGate ==
    /\ (run.command \in GatedCommands /\ Acted)
         => run.setup = "true" /\ credentials /\ run.claim = "claimed"
    /\ run.registerCalls > 0 => ~run.credsAtStart
    /\ (run.command = "scanMoltbook" /\ ~credentials /\ pc \in Terminal)
         => /\ pc = "exited"
            /\ result = RNULL
            /\ outcome = NoOutcome
            /\ hotPosts = <<>>
            /\ ~run.analysisCalled
            /\ run.saveCalls = 0
            /\ memory = run.memAtStart
            /\ file = run.fileAtStart

\* a scan process that found no credentials file has registered, seen the
\* claim status "claimed" and fetched the hot listing
C29_Witness ==
    /\ run.command = "scan"
    /\ ~run.credsAtStart
    /\ run.registerCalls = 1
    /\ run.setup = "true"
    /\ pc = "fetchedHot"
    /\ outcome["hot"] = "ok"
    /\ Len(hotPosts) = 1

\* a bulletin process whose credentials file was there but whose claim is
\* pending has exited without acting
C29_Refused ==
    /\ run.command = "bulletin"
    /\ run.credsAtStart
    /\ run.registerCalls = 0
    /\ run.claim = "pending"
    /\ run.setup = "false"
    /\ pc = "exited"
    /\ ~Acted
    /\ result = PENDING

\* scanMoltbook on an Embassy without credentials has returned null
C29_NullReturn ==
    /\ run.command = "scanMoltbook"
    /\ ~credentials
    /\ pc = "exited"
    /\ result = RNULL

----------------------------------------------------------------------------
(* Two scan processes at the same time *)

\* the memory file both processes find
OverlapFile ==
    FileOf(Stringify([last_moltbook_check |-> PastTime, posts_seen |-> <<"c">>]))

\* the hot listing serves a, the new listing serves b
InitOverlap ==
    /\ feed = [s \in Sources |-> IF s = "hot" THEN <<Post("a", T1)>>
                                 ELSE IF s = "new" THEN <<Post("b", T3)>>
                                 ELSE <<>>]
    /\ file = OverlapFile
    /\ credsFile = TRUE
    /\ InitProcess

\* the second process: new Embassy(), and setup() returns true
PeerConstructs ==
    /\ peer.pc = "none"
    /\ peer' = IF loadMemoryThrows(file)
               THEN [peer EXCEPT !.pc = "failed", !.fileAtLoad = file]
               ELSE [peer EXCEPT !.pc = "ready", !.memory = loadMemory(file),
                                 !.fileAtLoad = file]
    /\ UNCHANGED <<feed, file, credsFile, now, runs, pc, credentials, memory,
                   outcome, hotPosts, newPosts, allPosts, newToUs, uniquePosts,
                   opps, result, run, prev>>

\* the second process: scanMoltbook up to the request to the analysis
PeerScans ==
    /\ peer.pc = "ready"
    /\ \E oh \in FetchOutcomes, on \in FetchOutcomes :
         IF FetchThrows(oh) \/ FetchThrows(on)
         THEN peer' = [peer EXCEPT !.pc = "failed"]
         ELSE LET merged == DedupeScan(getMoltbookFeed(oh, feed["hot"])
                                         \o getMoltbookFeed(on, feed["new"]))
                  fresh  == FilterNew(merged, peer.memory.posts_seen)
              IN  peer' = [peer EXCEPT
                             !.pc = IF Len(fresh) > 0 THEN "analyzing" ELSE "exited",
                             !.newToUs = fresh]
    /\ UNCHANGED <<feed, file, credsFile, now, runs, pc, credentials, memory,
                   outcome, hotPosts, newPosts, allPosts, newToUs, uniquePosts,
                   opps, result, run, prev>>

\* the second process: the analysis returns, update memory, saveMemory
PeerSaves ==
    /\ peer.pc = "analyzing"
    /\ LET updated == UpdateMemory(peer.memory, peer.newToUs, "report", now)
       IN  /\ peer' = [peer EXCEPT !.pc = "saved", !.memory = updated]
           /\ file' \in saveMemory(file, updated, "ok")
    /\ UNCHANGED <<feed, credsFile, now, runs, pc, credentials, memory,
                   outcome, hotPosts, newPosts, allPosts, newToUs, uniquePosts,
                   opps, result, run, prev>>

NextOverlap ==
    \/ Construct
    \/ Setup
    \/ ScanFetchHot
    \/ ScanFetchNew
    \/ AnalysisReturns
    \/ AnalysisThrows
    \/ PeerConstructs
    \/ PeerScans
    \/ PeerSaves

SpecOverlap == InitOverlap /\ [][NextOverlap]_vars

\* both processes loaded the memory file before either of them saved it
LoadedBeforeSaves ==
    run.fileAtStart = OverlapFile /\ peer.fileAtLoad = OverlapFile

\* both processes have saved
BothSaved ==
    /\ pc = "exited"
    /\ run.saveCalls = 1
    /\ peer.pc = "saved"

\* C30: when two scan processes load the memory file before either saves
\* it, then once both have saved the file's posts_seen holds every id that
\* either of them appended.
C30_NoLostUpdate ==
    (LoadedBeforeSaves /\ BothSaved)
        => /\ Parses(file.doc)
           /\ \A i \in 1..Len(newToUs) :
                newToUs[i].id \in Range(file.doc.ids)
           /\ \A i \in 1..Len(peer.newToUs) :
                peer.newToUs[i].id \in Range(file.doc.ids)

====
